---- MODULE Spec2Model ----
(***************************************************************************)
(* Gallery backend: the item and collection route handlers of              *)
(* backend/app/api/routes, over a database of Collections and Items and a  *)
(* file storage.  One action per route handler; a handler runs to its      *)
(* response in one step, and the response is delivered before the next     *)
(* request is served.                                                      *)
(***************************************************************************)
EXTENDS Integers, Sequences, FiniteSets, TLC

VARIABLES
  collections,        \* table collection: id -> row
  items,              \* table item: id -> row
  files,              \* paths of the files present in storage
  dirs,               \* storage directories created so far
  next_collection_id, \* next primary key of table collection
  next_item_id,       \* next primary key of table item
  now,                \* the clock read by datetime.now
  writes,             \* requests that changed rows other than by an upload or an item's deletion
  last,               \* the request served last and its response
  superusers          \* ids of the rows of table user with is_superuser

vars ==
  <<collections, items, files, dirs, next_collection_id, next_item_id, now, writes, last,
    superusers>>

db == <<collections, items, next_collection_id, next_item_id, now, writes>>

-----------------------------------------------------------------------------
(* Bounds of the model *)

\* primary keys handed out to items
MaxItems == 1
\* primary keys handed out to collections
MaxCollections == 3
\* distinct random tokens uuid4 can draw
MaxUuid == 2
\* requests let through to change rows other than by an upload or an item's deletion
MaxWrites == 1

-----------------------------------------------------------------------------
(* Values *)

None == <<>>
Some(x) == <<x>>

\* users 1..3; current_user.is_superuser
Users == {1, 2, 3}
is_superuser(u) == u \in superusers

ItemIds == 1 .. MaxItems + 1
CollectionIds == 1 .. MaxCollections

\* collection names, as sequences of characters
Names == {<<"A", " ", "b">>, <<"a", "_", "b">>, <<"c">>}

\* str.lower on one character of the names' alphabet
lower(ch) == IF ch = "A" THEN "a" ELSE ch

\* collection.name.replace(' ', '_').lower()
collection_dir(name) ==
  [i \in DOMAIN name |-> lower(IF name[i] = " " THEN "_" ELSE name[i])]

\* declared content types, as <<type, subtype>>; None when the part declares none
ContentTypes == {None, Some(<<"text", "plain">>), Some(<<"image", "png">>)}

\* not_an_image without the test for a missing content type
not_an_image_unless_missing(content_type) ==
  content_type # None /\ content_type[1][1] # "image"

\* not file.content_type or not file.content_type.startswith('image/')
not_an_image(content_type) ==
  content_type = None \/ content_type[1][1] # "image"

\* date strings, as sequences of tokens: "D" a date-time body, "Z", "+00:00" a
\* UTC offset, "x" anything else
DateStrings == {<<>>, <<"x">>, <<"D">>, <<"D", "Z">>, <<"D", "+00:00">>}

\* commission_date.replace('Z', '+00:00')
replace_Z(s) == [i \in DOMAIN s |-> IF s[i] = "Z" THEN "+00:00" ELSE s[i]]

\* datetime.fromisoformat: the strings it parses; any other raises ValueError
is_isoformat(s) == s \in {<<"D">>, <<"D", "+00:00">>}

\* the datetime parsed: naive, or aware with the offset read
fromisoformat(s) == [aware |-> Len(s) = 2]

\* os.path.splitext(name)[1] on the file names of the model
splitext(name) ==
  CASE name = "a.png" -> ".png"
    [] name = "b.gif" -> ".gif"
    [] OTHER -> ""

\* os.path.splitext(file.filename or "")[1] or ".jpg"
file_extension(filename) ==
  IF filename = None \/ splitext(filename[1]) = "" THEN ".jpg"
  ELSE splitext(filename[1])

\* uuid4: a token no stored file and no item row carries
UsedUuids ==
  {p[2] : p \in files} \cup {items[i].file_path[2] : i \in DOMAIN items}

FreshUuids == (1 .. MaxUuid) \ UsedUuids

uuid4 == CHOOSE u \in FreshUuids : \A v \in FreshUuids : u <= v

-----------------------------------------------------------------------------
(* Requests and responses *)

\* no request is being answered
Idle ==
  [op |-> "idle", user |-> 0, status |-> 0, at |-> "idle", req |-> <<>>, before |-> <<>>]

\* the database and the storage as a request finds them
Snapshot == [collections |-> collections, items |-> items, files |-> files, dirs |-> dirs]

\* the answer to request req of user u: the status code, the place of the
\* handler that produced it, and the state the request found
Response(op, u, status, at, req) ==
  [op |-> op, user |-> u, status |-> status, at |-> at, req |-> req, before |-> Snapshot]

\* the answer of a read, with the body returned
Returned(op, u, req, body) == Response(op, u, 200, "done", req @@ [body |-> body])

\* the form of an upload: the field values of a multipart request
BaseForm ==
  [title |-> "t1", description |-> None, alt_text |-> None, veneration |-> None,
   commission_date |-> None, owned_since |-> None, monitory_value |-> None]

FullForm ==
  [title |-> "t1", description |-> Some("d1"), alt_text |-> Some("a1"),
   veneration |-> Some("v1"), commission_date |-> Some(<<"D", "Z">>),
   owned_since |-> Some(<<"D">>), monitory_value |-> Some(10)]

UploadForms ==
  {BaseForm, FullForm}
  \cup {[BaseForm EXCEPT !.commission_date = Some(s)] : s \in DateStrings}
  \cup {[BaseForm EXCEPT !.owned_since = Some(s)] : s \in {<<"x">>, <<"D", "+00:00">>}}

\* an uploaded file part: its name, the number of bytes, and the pixel size PIL
\* reads from the bytes (None when PIL cannot decode them)
\* write_fails: writing the bytes to storage raises
BaseFile ==
  [filename |-> Some("a.png"), size |-> 1, dims |-> Some(<<4, 3>>), write_fails |-> FALSE]

UploadFiles ==
  {BaseFile,
   [BaseFile EXCEPT !.filename = None],
   [BaseFile EXCEPT !.filename = Some("noext")],
   [BaseFile EXCEPT !.dims = None],
   [BaseFile EXCEPT !.size = 0, !.dims = None],
   [BaseFile EXCEPT !.write_fails = TRUE]}

\* the bodies of upload requests: one field or the file varied at a time
UploadBodies ==
  {<<form, BaseFile>> : form \in UploadForms}
  \cup {<<BaseForm, file>> : file \in UploadFiles}

\* the form of PUT /items/{id}: every field is optional
FormFields ==
  {"title", "description", "alt_text", "veneration", "commission_date",
   "owned_since", "monitory_value"}

NoForm == [f \in FormFields |-> None]

NewForm ==
  [title |-> Some("t2"), description |-> Some("d2"), alt_text |-> Some("a2"),
   veneration |-> Some("v2"), commission_date |-> Some(<<"D">>),
   owned_since |-> Some(<<"D", "Z">>), monitory_value |-> Some(20)]

OneField(f) == [NoForm EXCEPT ![f] = NewForm[f]]

UpdateForms ==
  {NoForm, NewForm}
  \cup {OneField(f) : f \in FormFields}
  \cup {[NoForm EXCEPT !.commission_date = Some(s)] : s \in {<<>>, <<"x">>, <<"D", "+00:00">>}}
  \cup {[NoForm EXCEPT !.owned_since = Some(<<"x">>)]}

\* the replacement file of PUT /items/{id}, with its declared content type
NewFile ==
  [content_type |-> Some(<<"image", "gif">>), filename |-> Some("b.gif"), size |-> 2,
   dims |-> Some(<<8, 6>>), write_fails |-> FALSE]

UpdateFiles ==
  {NewFile,
   [NewFile EXCEPT !.content_type = None],
   [NewFile EXCEPT !.content_type = Some(<<"text", "plain">>)],
   [NewFile EXCEPT !.filename = None],
   [NewFile EXCEPT !.dims = None],
   [NewFile EXCEPT !.size = 0, !.dims = None],
   [NewFile EXCEPT !.write_fails = TRUE]}

\* the bodies of PUT /items/{id}: <<collection_id, form, file>>, the form varied
\* alone, the file and the target collection varied together with the title
OptionalCollectionIds == {None} \cup {Some(c) : c \in CollectionIds}

UpdateBodies ==
  {<<None, form, None>> : form \in UpdateForms}
  \cup {<<None, form, Some(file)>> : form \in {NoForm, OneField("title")}, file \in UpdateFiles}
  \cup {<<c, form, file>> : c \in OptionalCollectionIds,
                            form \in {NoForm, OneField("title")},
                            file \in {None, Some(NewFile),
                                      Some([NewFile EXCEPT !.content_type = None])}}

\* the bodies of PATCH /items/{id}: the fields of ItemUpdate that are set, each
\* to a new value or to null; collection_id as Some(id) or None for null
PatchNew ==
  [title |-> Some("t2"), description |-> Some("d2"), alt_text |-> Some("a2"),
   veneration |-> Some("v2"), commission_date |-> Some([aware |-> FALSE]),
   owned_since |-> Some([aware |-> TRUE]), monitory_value |-> Some(20)]

PatchPayloads ==
  {<<>>, [title |-> PatchNew.title, description |-> PatchNew.description]}
  \cup {[g \in {f} |-> PatchNew[f]] : f \in FormFields}
  \cup {[g \in {f} |-> None] : f \in FormFields}
  \cup {[collection_id |-> c] : c \in OptionalCollectionIds}
  \cup {[title |-> PatchNew.title, collection_id |-> c] : c \in OptionalCollectionIds}

\* the JSON objects sent to PATCH /items/{id}: the bodies above, and objects
\* with keys that are columns of Item and no fields of ItemUpdate
PatchBodies ==
  PatchPayloads
  \cup {[owner_id |-> 3, upload_date |-> 0],
        [title |-> PatchNew.title, owner_id |-> 3, upload_date |-> 0]}

\* the bodies of POST /collections/ (CollectionCreate)
CollectionCreates ==
  {[name |-> <<"a", "_", "b">>, description |-> None, is_public |-> FALSE],
   [name |-> <<"a", "_", "b">>, description |-> Some("cd"), is_public |-> TRUE]}

\* the bodies of PUT /collections/{id} (CollectionUpdate): the fields that are
\* set, each to a value or to null
CollectionUpdates ==
  {<<>>,
   [name |-> Some(<<"c">>)], [name |-> None],
   [description |-> Some("cd")], [description |-> None],
   [is_public |-> Some(TRUE)], [is_public |-> Some(FALSE)], [is_public |-> None],
   [name |-> Some(<<"c">>), description |-> Some("cd"), is_public |-> Some(FALSE)]}

\* the JSON objects sent to PUT /collections/{id}: the bodies above, and
\* objects with a key that is a column of Collection and no field of
\* CollectionUpdate
CollectionBodies ==
  CollectionUpdates
  \cup {[created_by |-> 3], [description |-> Some("cd"), created_by |-> 3]}

\* the windows <<skip, limit>> and the filters of GET /items/; 100 is the
\* default limit
Windows == {<<0, 100>>, <<1, 1>>}
CollectionFilters == {None, Some(0)} \cup {Some(c) : c \in CollectionIds}

-----------------------------------------------------------------------------
(* Database rows *)

\* Item.model_validate: the constraints of ItemBase on the file attributes
Item_model_validate(item_data) ==
  /\ item_data.file_size > 0
  /\ item_data.width = None \/ item_data.width[1] > 0
  /\ item_data.height = None \/ item_data.height[1] > 0

\* the NOT NULL columns of table item
item_not_null(row) == row.title # None

\* the collections the database holds at the start: a public collection of the
\* superuser and a private one that user 2 created while a superuser
\* (is_superuser is a column of user, which an update of the user changes)
InitCollections ==
  (1 :> [name |-> <<"A", " ", "b">>, description |-> None, is_public |-> TRUE,
         created_by |-> 1, created_date |-> 1])
  @@ (2 :> [name |-> <<"c">>, description |-> None, is_public |-> FALSE,
            created_by |-> 2, created_date |-> 2])

Init ==
  /\ superusers = {1}
  /\ collections = InitCollections
  /\ items = <<>>
  /\ files = {}
  /\ dirs = {}
  /\ next_collection_id = 3
  /\ next_item_id = 1
  /\ now = 3
  /\ writes = 0
  /\ last = Idle

\* a request is served once the answer to the one before has been returned
Serving == last.op = "idle"

\* the handler's answer is returned to the caller
ReturnResponse ==
  /\ last.op # "idle"
  /\ last' = Idle
  /\ UNCHANGED <<collections, items, files, dirs, next_collection_id, next_item_id, now, writes,
                 superusers>>

-----------------------------------------------------------------------------
(* Item routes *)

\* upload_image's parse of an optional date field raises ValueError: the field
\* is present, not empty, and not in ISO format once every Z is replaced
upload_date_error(field) ==
  field # None /\ field[1] # <<>> /\ ~is_isoformat(replace_Z(field[1]))

\* the date upload_image parses from an optional field: None when the field is
\* absent or empty
upload_parse_date(field) ==
  IF field = None \/ field[1] = <<>> THEN None
  ELSE Some(fromisoformat(replace_Z(field[1])))

\* item_data of upload_image
upload_item_data(u, collection_id, content_type, form, file, file_path, unique_filename) ==
  [title |-> Some(form.title), description |-> form.description,
   veneration |-> form.veneration,
   commission_date |-> upload_parse_date(form.commission_date),
   owned_since |-> upload_parse_date(form.owned_since),
   monitory_value |-> form.monitory_value,
   filename |-> IF file.filename = None THEN unique_filename ELSE file.filename,
   file_path |-> file_path, file_size |-> file.size, mime_type |-> content_type,
   width |-> IF file.dims = None THEN None ELSE Some(file.dims[1][1]),
   height |-> IF file.dims = None THEN None ELSE Some(file.dims[1][2]),
   alt_text |-> form.alt_text, owner_id |-> u, collection_id |-> collection_id]

\* upload_cleanup without the os.remove
upload_cleanup_keeps_file(written, file_path) == written

\* the except clause of upload_image: the written file is removed and the
\* failure is answered 500
upload_cleanup(written, file_path) == written \ {file_path}

\* can_use_collection without the rule for the creator of the collection
can_use_collection_not_creator(u, collection) == is_superuser(u) \/ collection.is_public

\* can_use_collection with the check left out
can_use_collection_unchecked(u, collection) == TRUE

\* the check on the collection an item is put into, in upload_image, update_item
\* and update_item_metadata
can_use_collection(u, collection) ==
  is_superuser(u) \/ collection.is_public \/ collection.created_by = u

\* POST /items/upload
upload_image ==
  /\ Serving
  /\ UNCHANGED superusers
  /\ \E u \in Users, collection_id \in CollectionIds, content_type \in ContentTypes :
       LET op == "upload_image"
           r1 == [collection_id |-> collection_id, content_type |-> content_type]
           same == UNCHANGED <<collections, items, files, dirs, next_collection_id,
                               next_item_id, now, writes>>
       IN
       IF collection_id \notin DOMAIN collections
       THEN last' = Response(op, u, 404, "collection", r1) /\ same
       ELSE IF ~can_use_collection(u, collections[collection_id])
       THEN last' = Response(op, u, 403, "permission", r1) /\ same
       ELSE
         IF not_an_image(content_type)
         THEN last' = Response(op, u, 400, "content_type", r1) /\ same
         ELSE \E body \in UploadBodies :
           /\ FreshUuids # {}
           /\ next_item_id <= MaxItems
           /\ LET form == body[1]
                  file == body[2]
                  r2 == r1 @@ [form |-> form, file |-> file]
                  unique_filename == <<uuid4, file_extension(file.filename)>>
                  dir == collection_dir(collections[collection_id].name)
                  file_path == <<dir, unique_filename[1], unique_filename[2]>>
                  written == files \cup {file_path}
                  item_data == upload_item_data(u, collection_id, content_type, form,
                                                file, file_path, unique_filename)
              IN
              /\ dirs' = dirs \cup {dir}
              /\ UNCHANGED <<collections, next_collection_id, writes>>
              /\ IF file.write_fails
                 THEN /\ last' = Response(op, u, 500, "write", r2)
                      /\ files' = upload_cleanup(files, file_path)
                      /\ UNCHANGED <<items, next_item_id, now, writes>>
                 ELSE IF upload_date_error(form.commission_date)
                    \/ upload_date_error(form.owned_since)
                 THEN /\ last' = Response(op, u, 500, "date", r2)
                      /\ files' = upload_cleanup(written, file_path)
                      /\ UNCHANGED <<items, next_item_id, now, writes>>
                 ELSE IF ~Item_model_validate(item_data)
                 THEN /\ last' = Response(op, u, 500, "validate", r2)
                      /\ files' = upload_cleanup(written, file_path)
                      /\ UNCHANGED <<items, next_item_id, now, writes>>
                 ELSE \E commit_fails \in BOOLEAN :
                   IF commit_fails
                   THEN /\ last' = Response(op, u, 500, "commit", r2)
                        /\ files' = upload_cleanup(written, file_path)
                        /\ UNCHANGED <<items, next_item_id, now, writes>>
                   ELSE /\ last' = Response(op, u, 200, "done", r2 @@ [id |-> next_item_id])
                        /\ files' = written
                        /\ items' = items @@ (next_item_id :>
                                       (item_data @@ [upload_date |-> now]))
                        /\ next_item_id' = next_item_id + 1
                        /\ now' = now + 1

\* not_owner letting every user pass who may read the item
not_owner_unless_readable(u, item) ==
  /\ ~is_superuser(u)
  /\ item.owner_id # u
  /\ ~(item.collection_id \in DOMAIN collections
       /\ collections[item.collection_id].is_public)

\* not current_user.is_superuser and (item.owner_id != current_user.id), of
\* update_item, update_item_metadata and delete_item
not_owner(u, item) == ~is_superuser(u) /\ item.owner_id # u

\* the fields of the form that update_item copies when they are not None
PlainFields == {"title", "description", "alt_text", "veneration", "monitory_value"}

\* update_data of update_item before the file is handled: the supplied fields
update_item_data(collection_id, form) ==
  LET supplied == {f \in FormFields : form[f] # None} IN
  [f \in supplied |->
     IF f \in PlainFields THEN form[f] ELSE Some(fromisoformat(replace_Z(form[f][1])))]
  @@ (IF collection_id = None THEN <<>> ELSE [collection_id |-> collection_id[1]])

\* update_item's parse of a date field raises ValueError
update_date_error(field) == field # None /\ ~is_isoformat(replace_Z(field[1]))

\* the file attributes update_item puts into update_data
update_file_data(file, new_file_path, unique_filename) ==
  [filename |-> IF file.filename = None THEN unique_filename ELSE file.filename,
   file_path |-> new_file_path, file_size |-> file.size, mime_type |-> file.content_type,
   width |-> IF file.dims = None THEN None ELSE Some(file.dims[1][1]),
   height |-> IF file.dims = None THEN None ELSE Some(file.dims[1][2])]

\* sqlmodel_update given a dump that carries the unset fields as None
sqlmodel_update_unset_as_none(row, update_data) ==
  [f \in DOMAIN row |->
     IF f \in DOMAIN update_data THEN update_data[f]
     ELSE IF f \in {"description", "alt_text", "veneration", "monitory_value"} THEN None
     ELSE row[f]]

\* item.sqlmodel_update(update_data)
sqlmodel_update(row, update_data) ==
  [f \in DOMAIN row |-> IF f \in DOMAIN update_data THEN update_data[f] ELSE row[f]]

\* the files in storage once update_item has written the new file and tried to
\* remove the old one
update_replace_files(old_file_path, new_file_path, rm_fails) ==
  IF rm_fails THEN files \cup {new_file_path}
  ELSE (files \cup {new_file_path}) \ {old_file_path}

\* PUT /items/{id}
update_item ==
  /\ Serving
  /\ UNCHANGED superusers
  /\ \E u \in Users, id \in ItemIds, collection_id \in OptionalCollectionIds :
       LET op == "update_item"
           r0 == [id |-> id, collection_id |-> collection_id]
           same == UNCHANGED <<collections, items, files, dirs, next_collection_id,
                               next_item_id, now, writes>>
       IN
       IF id \notin DOMAIN items
       THEN last' = Response(op, u, 404, "item", r0) /\ same
       ELSE IF not_owner(u, items[id])
       THEN last' = Response(op, u, 403, "owner", r0) /\ same
       ELSE \E body \in {b \in UpdateBodies : b[1] = collection_id} :
         LET form == body[2]
             file == body[3]
             r1 == r0 @@ [form |-> form, file |-> file]
             item == items[id]
         IN
         IF collection_id # None /\ collection_id[1] \notin DOMAIN collections
         THEN last' = Response(op, u, 404, "target", r1) /\ same
         ELSE IF collection_id # None
                 /\ ~can_use_collection(u, collections[collection_id[1]])
         THEN last' = Response(op, u, 403, "target_permission", r1) /\ same
         ELSE IF update_date_error(form.commission_date)
                 \/ update_date_error(form.owned_since)
         THEN last' = Response(op, u, 400, "date", r1) /\ same
         ELSE IF file # None /\ not_an_image(file[1].content_type)
         THEN last' = Response(op, u, 400, "content_type", r1) /\ same
         ELSE IF file = None
         THEN LET update_data == update_item_data(collection_id, form) IN
              IF update_data = <<>>
              THEN last' = Response(op, u, 200, "done", r1) /\ same
              ELSE \E commit_fails \in BOOLEAN :
                /\ writes < MaxWrites
                /\ writes' = writes + 1
                /\ UNCHANGED <<collections, files, dirs, next_collection_id, next_item_id, now>>
                /\ IF commit_fails
                   THEN /\ last' = Response(op, u, 500, "commit", r1)
                        /\ UNCHANGED items
                   ELSE /\ last' = Response(op, u, 200, "done", r1)
                        /\ items' = [items EXCEPT ![id] = sqlmodel_update(item, update_data)]
         ELSE
           /\ FreshUuids # {}
           /\ writes < MaxWrites
           /\ writes' = writes + 1
           /\ LET unique_filename == <<uuid4, file_extension(file[1].filename)>>
                  collection == IF collection_id # None THEN collections[collection_id[1]]
                                ELSE collections[item.collection_id]
                  dir == collection_dir(collection.name)
                  new_file_path == <<dir, unique_filename[1], unique_filename[2]>>
                  update_data ==
                    update_file_data(file[1], new_file_path, unique_filename)
                    @@ update_item_data(collection_id, form)
              IN
              /\ dirs' = dirs \cup {dir}
              /\ UNCHANGED <<collections, next_collection_id, next_item_id, now>>
              /\ IF file[1].write_fails
                 THEN /\ last' = Response(op, u, 500, "write", r1)
                      /\ UNCHANGED <<items, files>>
                 ELSE \E rm_fails \in {x \in BOOLEAN : x => item.file_path \in files},
                         commit_fails \in BOOLEAN :
                   /\ files' = update_replace_files(item.file_path, new_file_path, rm_fails)
                   /\ IF commit_fails
                      THEN /\ last' = Response(op, u, 500, "commit", r1 @@ [rm_fails |-> rm_fails])
                           /\ UNCHANGED items
                      ELSE /\ last' = Response(op, u, 200, "done", r1 @@ [rm_fails |-> rm_fails])
                           /\ items' = [items EXCEPT ![id] = sqlmodel_update(item, update_data)]

\* ItemUpdate validating a JSON object and keeping the keys it does not declare
ItemUpdate_validate_extra_allowed(json) == json

\* the fields of ItemUpdate
ItemUpdateFields == FormFields \cup {"collection_id"}

\* item_in: ItemUpdate, validated from the JSON object of the request; keys
\* that are no fields of ItemUpdate are ignored
ItemUpdate_validate(json) == [f \in DOMAIN json \cap ItemUpdateFields |-> json[f]]

\* the collection_id of a PATCH body: None when the field is not set, else
\* Some of its value, which is None for null
patch_target(item_in) ==
  IF "collection_id" \in DOMAIN item_in THEN Some(item_in.collection_id) ELSE None

PatchTargets == {patch_target(p) : p \in PatchPayloads}

\* update_dict of update_item_metadata: item_in.model_dump(exclude_unset=True)
patch_update_dict(item_in) ==
  [f \in DOMAIN item_in |->
     IF f = "collection_id" /\ item_in[f] # None THEN item_in[f][1] ELSE item_in[f]]

\* PATCH /items/{id}
update_item_metadata ==
  /\ Serving
  /\ UNCHANGED superusers
  /\ \E u \in Users, id \in ItemIds, target \in PatchTargets :
       LET op == "update_item_metadata"
           r0 == [id |-> id, target |-> target]
           same == UNCHANGED <<collections, items, files, dirs, next_collection_id,
                               next_item_id, now, writes>>
       IN
       IF id \notin DOMAIN items
       THEN last' = Response(op, u, 404, "item", r0) /\ same
       ELSE IF not_owner(u, items[id])
       THEN last' = Response(op, u, 403, "owner", r0) /\ same
       ELSE \E json \in {b \in PatchBodies : patch_target(ItemUpdate_validate(b)) = target} :
         LET item_in == ItemUpdate_validate(json)
             r1 == r0 @@ [json |-> json, item_in |-> item_in]
             moves == "collection_id" \in DOMAIN item_in
             updated == sqlmodel_update(items[id], patch_update_dict(item_in))
         IN
         IF moves /\ (item_in.collection_id = None
                      \/ item_in.collection_id[1] \notin DOMAIN collections)
         THEN last' = Response(op, u, 404, "target", r1) /\ same
         ELSE IF moves /\ ~can_use_collection(u, collections[item_in.collection_id[1]])
         THEN last' = Response(op, u, 403, "target_permission", r1) /\ same
         ELSE \E commit_fails \in {x \in BOOLEAN : ~item_not_null(updated) => x} :
           /\ writes < MaxWrites
           /\ writes' = writes + 1
           /\ UNCHANGED <<collections, files, dirs, next_collection_id, next_item_id, now>>
           /\ IF commit_fails
              THEN last' = Response(op, u, 500, "commit", r1) /\ UNCHANGED items
              ELSE /\ last' = Response(op, u, 200, "done", r1)
                   /\ items' = [items EXCEPT ![id] = updated]

\* delete_item_raises without the try around os.remove
delete_item_raises_on_remove(rm_fails, commit_fails) == rm_fails \/ commit_fails

\* delete_item raises: the exception of os.remove is passed over, the one of
\* session.commit is not caught
delete_item_raises(rm_fails, commit_fails) == commit_fails

\* DELETE /items/{id}
delete_item ==
  /\ Serving
  /\ UNCHANGED superusers
  /\ \E u \in Users, id \in ItemIds :
       LET op == "delete_item"
           r0 == [id |-> id]
           same == UNCHANGED <<collections, items, files, dirs, next_collection_id,
                               next_item_id, now, writes>>
       IN
       IF id \notin DOMAIN items
       THEN last' = Response(op, u, 404, "item", r0) /\ same
       ELSE IF not_owner(u, items[id])
       THEN last' = Response(op, u, 403, "owner", r0) /\ same
       ELSE \E rm_fails \in {x \in BOOLEAN : x => items[id].file_path \in files},
               commit_fails \in BOOLEAN :
         LET r1 == r0 @@ [rm_fails |-> rm_fails, commit_fails |-> commit_fails] IN
         /\ files' = IF rm_fails THEN files ELSE files \ {items[id].file_path}
         /\ UNCHANGED <<collections, dirs, next_collection_id, next_item_id, now, writes>>
         /\ IF delete_item_raises(rm_fails, commit_fails)
            THEN last' = Response(op, u, 500, "commit", r1) /\ UNCHANGED items
            ELSE /\ last' = Response(op, u, 200, "done", r1)
                 /\ items' = [i \in DOMAIN items \ {id} |-> items[i]]

\* can_read_item without the rule for a public collection
can_read_item_owner_only(u, item) == is_superuser(u) \/ item.owner_id = u

\* current_user.is_superuser or item.owner_id == current_user.id or (collection
\* and collection.is_public), of read_item and get_image_file
can_read_item(u, item) ==
  \/ is_superuser(u)
  \/ item.owner_id = u
  \/ /\ item.collection_id \in DOMAIN collections
     /\ collections[item.collection_id].is_public

\* read_item_error with the permission check made before the lookup
read_item_error_permission_first(u, id) ==
  IF ~is_superuser(u) /\ (id \notin DOMAIN items \/ ~can_read_item(u, items[id]))
  THEN <<403, "permission">>
  ELSE IF id \notin DOMAIN items THEN <<404, "item">>
  ELSE None

\* the HTTPException read_item raises, as <<status, place>>, or None
read_item_error(u, id) ==
  IF id \notin DOMAIN items THEN <<404, "item">>
  ELSE IF ~can_read_item(u, items[id]) THEN <<403, "permission">>
  ELSE None

\* the HTTPException get_image_file raises, as <<status, place>>, or None
get_image_file_error(u, id) ==
  IF id \notin DOMAIN items THEN <<404, "item">>
  ELSE IF ~can_read_item(u, items[id]) THEN <<403, "permission">>
  ELSE IF items[id].file_path \notin files THEN <<404, "file">>
  ELSE None

\* GET /items/{id}
read_item ==
  /\ Serving
  /\ UNCHANGED superusers
  /\ UNCHANGED <<collections, items, files, dirs, next_collection_id, next_item_id, now, writes>>
  /\ \E u \in Users, id \in ItemIds :
       LET op == "read_item"
           r0 == [id |-> id]
       IN
       IF read_item_error(u, id) # None
       THEN last' = Response(op, u, read_item_error(u, id)[1], read_item_error(u, id)[2], r0)
       ELSE last' = Returned(op, u, r0, [id |-> id] @@ items[id])

\* GET /items/{id}/image
get_image_file ==
  /\ Serving
  /\ UNCHANGED superusers
  /\ UNCHANGED <<collections, items, files, dirs, next_collection_id, next_item_id, now, writes>>
  /\ \E u \in Users, id \in ItemIds :
       LET op == "get_image_file"
           r0 == [id |-> id]
       IN
       IF get_image_file_error(u, id) # None
       THEN last' = Response(op, u, get_image_file_error(u, id)[1],
                             get_image_file_error(u, id)[2], r0)
       ELSE last' = Returned(op, u, r0, items[id].file_path)

\* the rows of a table, by id, that satisfy a filter, newest first by the date
\* column; rows of one date in either order
RECURSIVE order_by_desc(_, _, _)
order_by_desc(table, ids, date) ==
  IF ids = {} THEN <<>>
  ELSE LET first == CHOOSE i \in ids : \A j \in ids : table[j][date] <= table[i][date]
       IN <<[id |-> first] @@ table[first]>> \o order_by_desc(table, ids \ {first}, date)

\* statement.offset(skip).limit(limit) applied to the ordered rows
offset_limit(rows, skip, limit) ==
  SubSeq(rows, skip + 1, IF skip + limit < Len(rows) THEN skip + limit ELSE Len(rows))

\* read_items_filter with the rule of read_item in place of the owner filter
read_items_filter_readable(u, collection_id) ==
  {i \in DOMAIN items :
     /\ collection_id = None \/ collection_id[1] = 0
        \/ items[i].collection_id = collection_id[1]
     /\ can_read_item(u, items[i])}

\* the where clauses of read_items: the collection filter, and the owner filter
\* for a user who is not the superuser
read_items_filter(u, collection_id) ==
  {i \in DOMAIN items :
     /\ collection_id = None \/ collection_id[1] = 0
        \/ items[i].collection_id = collection_id[1]
     /\ is_superuser(u) \/ items[i].owner_id = u}

\* ItemsPublic(data=items, count=count) of read_items
read_items_result(u, skip, limit, collection_id) ==
  LET matching == read_items_filter(u, collection_id) IN
  [data |-> offset_limit(order_by_desc(items, matching, "upload_date"), skip, limit),
   count |-> Cardinality(matching)]

\* GET /items/
read_items ==
  /\ Serving
  /\ UNCHANGED superusers
  /\ UNCHANGED <<collections, items, files, dirs, next_collection_id, next_item_id, now, writes>>
  /\ \E u \in Users, window \in Windows, collection_id \in CollectionFilters :
       LET skip == window[1]
           limit == window[2]
       IN
       last' = Returned("read_items", u,
                        [skip |-> skip, limit |-> limit, collection_id |-> collection_id],
                        read_items_result(u, skip, limit, collection_id))

-----------------------------------------------------------------------------
(* Collection routes *)

\* read_collections_filter without the collections the user created
read_collections_filter_public(u) ==
  {c \in DOMAIN collections : is_superuser(u) \/ collections[c].is_public}

\* the where clause of read_collections for a user who is not the superuser
read_collections_filter(u) ==
  {c \in DOMAIN collections :
     is_superuser(u) \/ collections[c].is_public \/ collections[c].created_by = u}

\* CollectionsPublic(data=collections, count=count) of read_collections
read_collections_result(u, skip, limit) ==
  LET matching == read_collections_filter(u) IN
  [data |-> offset_limit(order_by_desc(collections, matching, "created_date"), skip, limit),
   count |-> Cardinality(matching)]

\* GET /collections/
read_collections ==
  /\ Serving
  /\ UNCHANGED superusers
  /\ UNCHANGED <<collections, items, files, dirs, next_collection_id, next_item_id, now, writes>>
  /\ \E u \in Users, window \in Windows :
       LET skip == window[1]
           limit == window[2]
       IN
       last' = Returned("read_collections", u, [skip |-> skip, limit |-> limit],
                        read_collections_result(u, skip, limit))

\* GET /collections/{id}
read_collection ==
  /\ Serving
  /\ UNCHANGED superusers
  /\ UNCHANGED <<collections, items, files, dirs, next_collection_id, next_item_id, now, writes>>
  /\ \E u \in Users, id \in CollectionIds :
       LET op == "read_collection"
           r0 == [id |-> id]
       IN
       IF id \notin DOMAIN collections
       THEN last' = Response(op, u, 404, "collection", r0)
       ELSE IF ~(is_superuser(u) \/ collections[id].created_by = u
                  \/ collections[id].is_public)
       THEN last' = Response(op, u, 403, "permission", r0)
       ELSE last' = Returned(op, u, r0, [id |-> id] @@ collections[id])

\* not_enough_permissions letting the creator of a collection pass
not_enough_permissions_unless_creator(u) ==
  ~is_superuser(u) /\ \A c \in DOMAIN collections : collections[c].created_by # u

\* if not current_user.is_superuser, of create_collection, update_collection and
\* delete_collection
not_enough_permissions(u) == ~is_superuser(u)

\* POST /collections/
create_collection ==
  /\ Serving
  /\ UNCHANGED superusers
  /\ \E u \in Users :
       LET op == "create_collection"
           same == UNCHANGED <<collections, items, files, dirs, next_collection_id,
                               next_item_id, now, writes>>
       IN
       IF not_enough_permissions(u)
       THEN last' = Response(op, u, 403, "superuser", <<>>) /\ same
       ELSE \E collection_in \in CollectionCreates, commit_fails \in BOOLEAN :
         LET r1 == [collection_in |-> collection_in] IN
         /\ next_collection_id <= MaxCollections
         /\ writes < MaxWrites
         /\ writes' = writes + 1
         /\ UNCHANGED <<items, files, dirs, next_item_id>>
         /\ IF commit_fails
            THEN /\ last' = Response(op, u, 500, "commit", r1)
                 /\ UNCHANGED <<collections, next_collection_id, now>>
            ELSE /\ last' = Response(op, u, 200, "done", r1 @@ [id |-> next_collection_id])
                 /\ collections' = collections @@ (next_collection_id :>
                      (collection_in @@ [created_by |-> u, created_date |-> now]))
                 /\ next_collection_id' = next_collection_id + 1
                 /\ now' = now + 1

\* the fields of CollectionUpdate
CollectionUpdateFields == {"name", "description", "is_public"}

\* collection_in: CollectionUpdate, validated from the JSON object of the
\* request; keys that are no fields of CollectionUpdate are ignored
CollectionUpdate_validate(json) ==
  [f \in DOMAIN json \cap CollectionUpdateFields |-> json[f]]

\* update_dict of update_collection, as column values; "NULL" for a null in a
\* column that is NOT NULL
collection_update_dict(collection_in) ==
  [f \in DOMAIN collection_in |->
     IF f = "description" THEN collection_in[f]
     ELSE IF collection_in[f] = None THEN "NULL"
     ELSE collection_in[f][1]]

\* the NOT NULL columns of table collection
collection_not_null(collection_in) ==
  \A f \in DOMAIN collection_in : f = "description" \/ collection_in[f] # None

\* PUT /collections/{id}
update_collection ==
  /\ Serving
  /\ UNCHANGED superusers
  /\ \E u \in Users, id \in CollectionIds :
       LET op == "update_collection"
           r0 == [id |-> id]
           same == UNCHANGED <<collections, items, files, dirs, next_collection_id,
                               next_item_id, now, writes>>
       IN
       IF not_enough_permissions(u)
       THEN last' = Response(op, u, 403, "superuser", r0) /\ same
       ELSE IF id \notin DOMAIN collections
       THEN last' = Response(op, u, 404, "collection", r0) /\ same
       ELSE \E json \in CollectionBodies :
         \E commit_fails \in {x \in BOOLEAN :
                                ~collection_not_null(CollectionUpdate_validate(json)) => x} :
           LET collection_in == CollectionUpdate_validate(json)
               r1 == r0 @@ [json |-> json, collection_in |-> collection_in]
           IN
           /\ writes < MaxWrites
           /\ writes' = writes + 1
           /\ UNCHANGED <<items, files, dirs, next_collection_id, next_item_id, now>>
           /\ IF commit_fails
              THEN last' = Response(op, u, 500, "commit", r1) /\ UNCHANGED collections
              ELSE /\ last' = Response(op, u, 200, "done", r1)
                   /\ collections' = [collections EXCEPT ![id] =
                        sqlmodel_update(collections[id], collection_update_dict(collection_in))]

\* the items relationship of a collection: the rows the session sets
\* collection_id to NULL on when the collection is deleted
collection_items(id) == {i \in DOMAIN items : items[i].collection_id = id}

\* session.delete(collection); session.commit() raises: the collection has no
\* delete cascade to its items, so the session sets collection_id of each of
\* them to NULL, which the NOT NULL column refuses
delete_collection_raises(id, commit_fails) == commit_fails \/ collection_items(id) # {}

\* DELETE /collections/{id}
delete_collection ==
  /\ Serving
  /\ UNCHANGED superusers
  /\ \E u \in Users, id \in CollectionIds :
       LET op == "delete_collection"
           r0 == [id |-> id]
           same == UNCHANGED <<collections, items, files, dirs, next_collection_id,
                               next_item_id, now, writes>>
       IN
       IF not_enough_permissions(u)
       THEN last' = Response(op, u, 403, "superuser", r0) /\ same
       ELSE IF id \notin DOMAIN collections
       THEN last' = Response(op, u, 404, "collection", r0) /\ same
       ELSE \E commit_fails \in BOOLEAN :
         LET r1 == r0 @@ [commit_fails |-> commit_fails] IN
         /\ writes < MaxWrites
         /\ writes' = writes + 1
         /\ UNCHANGED <<items, files, dirs, next_collection_id, next_item_id, now>>
         /\ IF delete_collection_raises(id, commit_fails)
            THEN /\ last' = Response(op, u, 500,
                                     IF commit_fails THEN "commit" ELSE "integrity", r1)
                 /\ UNCHANGED collections
            ELSE /\ last' = Response(op, u, 200, "done", r1)
                 /\ collections' = [c \in DOMAIN collections \ {id} |-> collections[c]]

-----------------------------------------------------------------------------
(* Seeding scripts *)

\* COLLECTIONS of seed_collections.py
COLLECTIONS ==
  <<[name |-> <<"Models & Statues">>, is_public |-> TRUE,
     description |->
       Some("Collectible models, figurines, and statues from various genres and periods")],
    [name |-> <<"Coins & Currency">>, is_public |-> TRUE,
     description |-> Some("Rare coins, paper money, and currency from around the world")],
    [name |-> <<"Stamps">>, is_public |-> TRUE,
     description |->
       Some("Vintage and rare postage stamps from different countries and eras")],
    [name |-> <<"Sketches & Illustrations">>, is_public |-> TRUE,
     description |->
       Some("Original sketches, drawings, and illustrations by various artists")],
    [name |-> <<"Sports Keepsakes">>, is_public |-> TRUE,
     description |-> Some("Sports memorabilia, trading cards, and athletic collectibles")],
    [name |-> <<"Vintage Electronics">>, is_public |-> TRUE,
     description |->
       Some("Classic electronic devices, gadgets, and technological artifacts")],
    [name |-> <<"Postcards & Ephemera">>, is_public |-> TRUE,
     description |->
       Some("Vintage postcards, tickets, programs, and other paper collectibles")],
    [name |-> <<"Antiques & Collectibles">>, is_public |-> TRUE,
     description |-> Some("General antiques and miscellaneous collectible items")],
    [name |-> <<"Personal Treasures">>, is_public |-> FALSE,
     description |-> Some("Personal items with sentimental value and family heirlooms")]>>

\* the collection add_favorites_collection creates
Favorites ==
  [name |-> <<"Favorites">>, is_public |-> FALSE,
   description |-> Some("Your favorite items saved from other collections")]

\* existing_collection that only sees the public collections
existing_collection_public(table, name) ==
  \E c \in DOMAIN table : table[c].name = name /\ table[c].is_public

\* existing_collection of the scripts, as the test made of it:
\* select(Collection).where(Collection.name == name).first() is not None
existing_collection(table, name) == \E c \in DOMAIN table : table[c].name = name

\* Collection(name=..., description=..., is_public=..., created_by=admin_user.id),
\* with created_date from the clock
seeded_row(collection_data, admin_user, clock) ==
  collection_data @@ [created_by |-> admin_user, created_date |-> clock]

\* the loop of seed_collections from entry k on: the session's table, the next
\* primary key and the clock after it; the select of each round sees the rows
\* the rounds before have added
RECURSIVE seed_loop(_, _, _, _, _)
seed_loop(k, table, next_id, clock, admin_user) ==
  IF k > Len(COLLECTIONS)
  THEN [collections |-> table, next_collection_id |-> next_id, now |-> clock]
  ELSE IF existing_collection(table, COLLECTIONS[k].name)
  THEN seed_loop(k + 1, table, next_id, clock, admin_user)
  ELSE seed_loop(k + 1,
                 table @@ (next_id :> seeded_row(COLLECTIONS[k], admin_user, clock)),
                 next_id + 1, clock + 1, admin_user)

\* a run of seed_collections.py; the status is the exit status of the script
seed_collections ==
  /\ Serving
  /\ UNCHANGED <<superusers, items, files, dirs, next_item_id, writes>>
  /\ LET op == "seed_collections"
         same == UNCHANGED <<collections, next_collection_id, now>>
     IN
     IF superusers = {}
     THEN last' = Response(op, 0, 0, "no_admin", <<>>) /\ same
     ELSE \E admin_user \in superusers, commit_fails \in BOOLEAN :
       LET r1 == [admin_user |-> admin_user, commit_fails |-> commit_fails]
           seeded == seed_loop(1, collections, next_collection_id, now, admin_user)
       IN
       IF commit_fails
       THEN last' = Response(op, admin_user, 1, "commit", r1) /\ same
       ELSE /\ last' = Response(op, admin_user, 0, "done", r1)
            /\ collections' = seeded.collections
            /\ next_collection_id' = seeded.next_collection_id
            /\ now' = seeded.now

\* a run of add_favorites_collection.py
add_favorites_collection ==
  /\ Serving
  /\ UNCHANGED <<superusers, items, files, dirs, next_item_id, writes>>
  /\ LET op == "add_favorites_collection"
         same == UNCHANGED <<collections, next_collection_id, now>>
     IN
     IF superusers = {}
     THEN last' = Response(op, 0, 0, "no_admin", <<>>) /\ same
     ELSE \E admin_user \in superusers :
       LET r0 == [admin_user |-> admin_user] IN
       IF existing_collection(collections, Favorites.name)
       THEN last' = Response(op, admin_user, 0, "exists", r0) /\ same
       ELSE \E commit_fails \in BOOLEAN :
         LET r1 == r0 @@ [commit_fails |-> commit_fails] IN
         IF commit_fails
         THEN last' = Response(op, admin_user, 1, "commit", r1) /\ same
         ELSE /\ last' = Response(op, admin_user, 0, "done", r1)
              /\ collections' = collections @@
                   (next_collection_id :> seeded_row(Favorites, admin_user, now))
              /\ next_collection_id' = next_collection_id + 1
              /\ now' = now + 1

-----------------------------------------------------------------------------
(* Properties *)

before == last.before
req == last.req

ItemOps ==
  {"read_item", "get_image_file", "update_item", "update_item_metadata", "delete_item"}
CollectionOps == {"read_collection", "update_collection", "delete_collection"}

\* the request left the rows and the stored files as it found them
NothingChanged ==
  items = before.items /\ files = before.files /\ collections = before.collections

\* C1: an upload that is answered with an error, whatever the failure (a
\* malformed date, a row that does not validate such as one of a zero-byte
\* file, a commit that fails), leaves in storage exactly the files the
\* request found, and no new row
C1_UploadRollback ==
  (last.op = "upload_image" /\ last.status # 200) =>
    /\ files = before.files
    /\ items = before.items
    /\ last.at \in {"date", "validate", "commit"} => last.status = 500

C1_Witness ==
  /\ last.op = "upload_image"
  /\ last.at = "commit"
  /\ last.status = 500
  /\ files = before.files

\* the collection id a move names: None when the request names none
MoveTarget ==
  IF last.op = "update_item" THEN req.collection_id
  ELSE IF last.op = "update_item_metadata" /\ req.target # None THEN req.target[1]
  ELSE None

\* the request names an item or a collection that does not exist
ReferencesMissing ==
  \/ last.op \in ItemOps /\ req.id \notin DOMAIN before.items
  \/ last.op \in CollectionOps /\ req.id \notin DOMAIN before.collections
  \/ last.op = "upload_image" /\ req.collection_id \notin DOMAIN before.collections
  \/ MoveTarget # None /\ MoveTarget[1] \notin DOMAIN before.collections

\* C2: a request that names an item, a collection or a move target that does
\* not exist is answered 404, whoever sends it
C2_NotFoundPrecedence == ReferencesMissing => last.status = 404

\* C3: read_item and get_image_file on an item id that does not exist answer
\* 404, for every user
C3_ReadMissingItemNotFound ==
  (last.op \in {"read_item", "get_image_file"} /\ req.id \notin DOMAIN before.items)
    => last.status = 404

C3_Witness ==
  /\ last.op = "get_image_file"
  /\ ~is_superuser(last.user)
  /\ items # <<>>
  /\ req.id \notin DOMAIN items
  /\ \A i \in DOMAIN items : items[i].owner_id # last.user
  /\ last.status = 404

\* a date string with a trailing Z replaced by +00:00
TrailingZReplaced(str) ==
  IF str # <<>> /\ str[Len(str)] = "Z"
  THEN SubSeq(str, 1, Len(str) - 1) \o <<"+00:00">>
  ELSE str

\* a date field that is present, not empty and not in ISO format
MalformedDate(field) ==
  /\ field # None
  /\ field[1] # <<>>
  /\ TrailingZReplaced(field[1]) \notin {<<"D">>, <<"D", "+00:00">>}

\* C4: an upload with a malformed commission_date or owned_since is answered
\* 400, creates no row and leaves no file
C4_MalformedDateInvalidInput ==
  (/\ last.op = "upload_image"
   /\ "form" \in DOMAIN req
   /\ ~req.file.write_fails
   /\ MalformedDate(req.form.commission_date) \/ MalformedDate(req.form.owned_since))
    => (last.status = 400 /\ items = before.items /\ files = before.files)

\* C5: update_item with a new file never leaves the row naming the old file
\* with the old file removed
C5_OldFileKeptUntilCommitted ==
  (/\ last.op = "update_item"
   /\ "file" \in DOMAIN req
   /\ req.file # None
   /\ before.items[req.id].file_path \in before.files
   /\ items[req.id].file_path = before.items[req.id].file_path)
    => items[req.id].file_path \in files

\* a declared content type that starts with image/
DeclaredImage(content_type) == content_type # None /\ content_type[1][1] = "image"

\* C6: an upload or a file replacement whose declared content type is missing
\* or is no image type is answered 400 once the ids and the permissions of the
\* request are checked, and writes no file, creates no directory and changes
\* no row
C6_NonImageRejected ==
  /\ (last.op = "upload_image" /\ ~DeclaredImage(req.content_type)) =>
       /\ last.status \in {400, 403, 404}
       /\ last.at \notin {"collection", "permission"} => last.status = 400
       /\ NothingChanged /\ dirs = before.dirs
  /\ (/\ last.op = "update_item"
      /\ "file" \in DOMAIN req
      /\ req.file # None
      /\ ~DeclaredImage(req.file[1].content_type)) =>
       /\ last.status \in {400, 403, 404}
       /\ last.at \notin {"target", "target_permission"} => last.status = 400
       /\ NothingChanged /\ dirs = before.dirs

C6_Witness ==
  /\ last.op = "update_item"
  /\ last.at = "content_type"
  /\ req.file[1].content_type = Some(<<"text", "plain">>)
  /\ last.status = 400

\* C7: a move of an existing item, by update_item or update_item_metadata, to
\* an existing private collection that the user did not create, by a user who
\* is not the superuser, is answered 403 and changes no row and no file
C7_ForbiddenMoveChangesNothing ==
  (/\ last.op \in {"update_item", "update_item_metadata"}
   /\ req.id \in DOMAIN before.items
   /\ ~is_superuser(last.user)
   /\ MoveTarget # None
   /\ MoveTarget[1] \in DOMAIN before.collections
   /\ ~before.collections[MoveTarget[1]].is_public
   /\ before.collections[MoveTarget[1]].created_by # last.user)
    => (last.status = 403 /\ NothingChanged)

C7_Witness ==
  /\ last.op = "update_item"
  /\ last.at = "target_permission"
  /\ before.items[req.id].owner_id = last.user
  /\ req.file # None
  /\ req.form.title # None
  /\ last.status = 403

\* the columns of a row that the file of update_item sets
FileFields == {"filename", "file_path", "file_size", "mime_type", "width", "height"}

\* the value a PATCH body gives column f
PatchValue(f) == IF f = "collection_id" THEN req.item_in[f][1] ELSE req.item_in[f]

\* update_item was given a value for column f
Supplied(f) ==
  \/ f \in FormFields /\ req.form[f] # None
  \/ f = "collection_id" /\ req.collection_id # None
  \/ f \in FileFields /\ req.file # None

\* C8: an update_item_metadata that succeeds sets the columns its body sets and
\* leaves every other column, and every other row, as it was; an update_item
\* that succeeds leaves every column for which no value was supplied as it was
C8_SparsePatch ==
  /\ (last.op = "update_item_metadata" /\ last.status = 200) =>
       /\ DOMAIN items = DOMAIN before.items
       /\ \A i \in DOMAIN items \ {req.id} : items[i] = before.items[i]
       /\ \A f \in DOMAIN before.items[req.id] :
            items[req.id][f] = IF f \in DOMAIN req.item_in THEN PatchValue(f)
                               ELSE before.items[req.id][f]
  /\ (last.op = "update_item" /\ last.status = 200) =>
       /\ DOMAIN items = DOMAIN before.items
       /\ \A i \in DOMAIN items \ {req.id} : items[i] = before.items[i]
       /\ \A f \in DOMAIN before.items[req.id] :
            /\ ~Supplied(f) => items[req.id][f] = before.items[req.id][f]
            /\ (f \in PlainFields /\ Supplied(f)) => items[req.id][f] = req.form[f]

C8_Witness ==
  /\ last.op = "update_item_metadata"
  /\ last.status = 200
  /\ DOMAIN req.item_in = {"title"}
  /\ before.items[req.id].description # None
  /\ items[req.id].title # before.items[req.id].title
  /\ items[req.id].description = before.items[req.id].description

\* C9: read_items, for a user who is not the superuser, returns only items the
\* user owns, with or without a collection filter
C9_ListOnlyOwnItems ==
  (last.op = "read_items" /\ ~is_superuser(last.user)) =>
    \A k \in DOMAIN req.body.data : req.body.data[k].owner_id = last.user

C9_Witness ==
  /\ last.op = "read_items"
  /\ ~is_superuser(last.user)
  /\ req.skip = 0
  /\ req.collection_id = None
  /\ req.body.data = <<>>
  /\ \E i \in DOMAIN items :
       /\ items[i].owner_id # last.user
       /\ items[i].collection_id \in DOMAIN collections
       /\ collections[items[i].collection_id].is_public
       /\ read_item_error(last.user, i) = None

\* C10: delete_item by the superuser or the owner on an existing item, when the
\* commit does not fail, answers 200 and removes the row, whether the file
\* exists or not and whether its removal fails or not
C10_DeleteIgnoresFileFailure ==
  (/\ last.op = "delete_item"
   /\ req.id \in DOMAIN before.items
   /\ is_superuser(last.user) \/ before.items[req.id].owner_id = last.user
   /\ ~req.commit_fails)
    => /\ last.status = 200
       /\ req.id \notin DOMAIN items
       /\ \A i \in DOMAIN before.items \ {req.id} :
            i \in DOMAIN items /\ items[i] = before.items[i]

C10_Witness ==
  /\ last.op = "delete_item"
  /\ last.status = 200
  /\ req.rm_fails
  /\ before.items[req.id].file_path \in files
  /\ req.id \notin DOMAIN items

\* C12: create_collection, update_collection and delete_collection by a user
\* who is not the superuser are answered 403 and leave every collection as it
\* was, also for the creator of the collection and for a public collection; a
\* collection the superuser creates has the superuser as created_by
C12_CollectionMutationsAdminOnly ==
  /\ (last.op \in {"create_collection", "update_collection", "delete_collection"}
      /\ ~is_superuser(last.user)) =>
       (last.status = 403 /\ NothingChanged)
  /\ (last.op = "create_collection" /\ last.status = 200) =>
       /\ is_superuser(last.user)
       /\ req.id \notin DOMAIN before.collections
       /\ DOMAIN collections = DOMAIN before.collections \cup {req.id}
       /\ collections[req.id].created_by = last.user

C12_Witness ==
  /\ last.op \in {"update_collection", "delete_collection"}
  /\ ~is_superuser(last.user)
  /\ req.id \in DOMAIN collections
  /\ collections[req.id].created_by = last.user
  /\ last.status = 403

\* the user of the request is the superuser, owns the item of the request, or
\* the item is in a public collection
MayRead ==
  \/ is_superuser(last.user)
  \/ before.items[req.id].owner_id = last.user
  \/ \E c \in DOMAIN before.collections :
       c = before.items[req.id].collection_id /\ before.collections[c].is_public

\* C13: on an existing item read_item answers 200 if the user is the superuser,
\* the owner, or the item is in a public collection, and 403 otherwise;
\* get_image_file denies with 403 in exactly the same cases
C13_ItemReadGate ==
  /\ (last.op = "read_item" /\ req.id \in DOMAIN before.items) =>
       last.status = IF MayRead THEN 200 ELSE 403
  /\ (last.op = "get_image_file" /\ req.id \in DOMAIN before.items) =>
       /\ MayRead <=> last.status # 403
       /\ last.status \in {200, 403, 404}
       /\ last.status = 404 => before.items[req.id].file_path \notin before.files

C13_Witness ==
  /\ last.op = "get_image_file"
  /\ req.id \in DOMAIN items
  /\ ~is_superuser(last.user)
  /\ items[req.id].owner_id # last.user
  /\ last.status = 200

ItemWrites == {"update_item", "update_item_metadata", "delete_item"}

\* the user of the request is the superuser or owns the item of the request
MayWrite == is_superuser(last.user) \/ before.items[req.id].owner_id = last.user

\* the request moves the item to a private collection of another user
ForbiddenTarget ==
  /\ MoveTarget # None
  /\ MoveTarget[1] \in DOMAIN before.collections
  /\ ~before.collections[MoveTarget[1]].is_public
  /\ before.collections[MoveTarget[1]].created_by # last.user

\* C14: update_item, update_item_metadata and delete_item on an existing item
\* by a user who is neither the superuser nor the owner are answered 403 and
\* change no row and no file, whatever the collection of the item; the
\* superuser is never answered 403, and the owner only for a move to a private
\* collection of another user
C14_ItemWriteGate ==
  (last.op \in ItemWrites /\ req.id \in DOMAIN before.items) =>
    /\ ~MayWrite => (last.status = 403 /\ NothingChanged /\ dirs = before.dirs)
    /\ (MayWrite /\ last.status = 403) => (~is_superuser(last.user) /\ ForbiddenTarget)

C14_Witness ==
  /\ last.op = "delete_item"
  /\ req.id \in DOMAIN items
  /\ ~is_superuser(last.user)
  /\ items[req.id].owner_id # last.user
  /\ items[req.id].collection_id \in DOMAIN collections
  /\ collections[items[req.id].collection_id].created_by = last.user
  /\ last.status = 403
  /\ items[req.id].file_path \in files

\* the ids of the rows of a table, within scope, that are newer than row i
Newer(table, scope, date, i) == {j \in scope : table[j][date] > table[i][date]}

\* data is the window skip+1 .. skip+limit of the rows of the table within
\* scope, newest first by the date column
IsWindow(data, table, scope, date, skip, limit) ==
  /\ Len(data) = IF Cardinality(scope) <= skip THEN 0
                 ELSE IF Cardinality(scope) - skip < limit THEN Cardinality(scope) - skip
                 ELSE limit
  /\ \A k \in DOMAIN data :
       /\ data[k].id \in scope
       /\ data[k] = [id |-> data[k].id] @@ table[data[k].id]
       /\ Cardinality(Newer(table, scope, date, data[k].id)) = skip + k - 1

\* the items a listing request matches: those of the user, or all for the
\* superuser, within the collection of the filter when the request has one
ListedItems ==
  {i \in DOMAIN before.items :
     /\ is_superuser(last.user) \/ before.items[i].owner_id = last.user
     /\ req.collection_id # None =>
          before.items[i].collection_id = req.collection_id[1]}

\* the collections a listing request matches
ListedCollections ==
  {c \in DOMAIN before.collections :
     \/ is_superuser(last.user)
     \/ before.collections[c].is_public
     \/ before.collections[c].created_by = last.user}

\* C11: read_items and read_collections return as count the number of all rows
\* that match the scope of the user and the collection filter, whatever the
\* window, and as page the rows skip+1 .. skip+limit of the matching rows,
\* newest first
C11_ListingWindowAndCount ==
  /\ last.op = "read_items" =>
       /\ req.body.count = Cardinality(ListedItems)
       /\ IsWindow(req.body.data, before.items, ListedItems, "upload_date",
                   req.skip, req.limit)
  /\ last.op = "read_collections" =>
       /\ req.body.count = Cardinality(ListedCollections)
       /\ IsWindow(req.body.data, before.collections, ListedCollections,
                   "created_date", req.skip, req.limit)

\* the ids of the rows of a page
PageIds(data) == {data[k].id : k \in DOMAIN data}

\* C15: read_collection on an existing collection answers 200 if the user is
\* the superuser, created the collection, or the collection is public, and 403
\* otherwise; read_collections matches exactly the collections read_collection
\* allows the user, which for the superuser is every collection
C15_CollectionReadScope ==
  /\ (last.op = "read_collection" /\ req.id \in DOMAIN before.collections) =>
       last.status = IF req.id \in ListedCollections THEN 200 ELSE 403
  /\ last.op = "read_collections" =>
       /\ req.body.count = Cardinality(ListedCollections)
       /\ PageIds(req.body.data) \subseteq ListedCollections
       /\ req.skip = 0 /\ req.limit >= req.body.count =>
            PageIds(req.body.data) = ListedCollections
       /\ is_superuser(last.user) => ListedCollections = DOMAIN before.collections

C15_Witness ==
  /\ last.op = "read_collections"
  /\ ~is_superuser(last.user)
  /\ req.skip = 0
  /\ \E c \in PageIds(req.body.data) :
       ~collections[c].is_public /\ collections[c].created_by = last.user
  /\ \E c \in DOMAIN collections : c \notin PageIds(req.body.data)

\* the user of an upload may put items into the collection the upload names
MayUpload ==
  \/ is_superuser(last.user)
  \/ before.collections[req.collection_id].is_public
  \/ before.collections[req.collection_id].created_by = last.user

\* C16: upload_image answers 404 when the collection does not exist, else 403
\* unless the user is the superuser, the collection is public or the user
\* created it, else 400 when the content type is no image type, and 404, 403
\* and 400 only then; these answers leave directories, files and rows as they
\* were; an upload that succeeds adds one row, owned by the user, in the
\* collection named, and the file of that row
C16_UploadCheckOrder ==
  last.op = "upload_image" =>
    /\ last.status = 404 <=> req.collection_id \notin DOMAIN before.collections
    /\ req.collection_id \in DOMAIN before.collections =>
         /\ last.status = 403 <=> ~MayUpload
         /\ last.status = 400 <=> (MayUpload /\ ~DeclaredImage(req.content_type))
    /\ last.status \in {400, 403, 404} => (NothingChanged /\ dirs = before.dirs)
    /\ last.status = 200 =>
         /\ req.id \notin DOMAIN before.items
         /\ DOMAIN items = DOMAIN before.items \cup {req.id}
         /\ \A i \in DOMAIN before.items : items[i] = before.items[i]
         /\ items[req.id].owner_id = last.user
         /\ items[req.id].collection_id = req.collection_id
         /\ files = before.files \cup {items[req.id].file_path}
         /\ items[req.id].file_path \notin before.files

C16_Witness ==
  /\ last.op = "upload_image"
  /\ last.status = 200
  /\ ~is_superuser(last.user)
  /\ ~collections[req.collection_id].is_public
  /\ items[req.id].owner_id = last.user

\* the items the collection of the request held
HeldItems == {i \in DOMAIN before.items : before.items[i].collection_id = req.id}

Orphans(stored, table) == stored \ {table[i].file_path : i \in DOMAIN table}

\* a removal of a file that the request attempted has failed
RemovalFailed == "rm_fails" \in DOMAIN req /\ req.rm_fails

\* C19: a request in which every removal of a file succeeds, and which finds
\* every stored file named by a row, leaves every stored file named by a row;
\* so, as storage is empty at the start, no run in which every removal succeeds
\* leaves a file that no row names
C19_NoOrphanedFiles ==
  (/\ last.op # "idle"
   /\ Orphans(before.files, before.items) = {}
   /\ ~RemovalFailed)
    => Orphans(files, items) = {}

\* C20: in every state the file_path of every item names a file in storage
C20_LiveRecordsHaveFiles == \A i \in DOMAIN items : items[i].file_path \in files

\* C17: every stored item has file_size > 0, and width and height either both
\* absent or both present and > 0
C17_ItemInvariant ==
  \A i \in DOMAIN items :
    /\ items[i].file_size > 0
    /\ \/ items[i].width = None /\ items[i].height = None
       \/ /\ items[i].width # None /\ items[i].height # None
          /\ items[i].width[1] > 0 /\ items[i].height[1] > 0

\* the runs of the seeding scripts
SeedOps == {"seed_collections", "add_favorites_collection"}

\* the names a script seeds
ScriptNames(op) ==
  IF op = "seed_collections"
  THEN {COLLECTIONS[k].name : k \in 1 .. Len(COLLECTIONS)}
  ELSE {Favorites.name}

SeededNames == ScriptNames("seed_collections") \cup ScriptNames("add_favorites_collection")

\* the names of the rows of a table, and the rows that bear a name
NamesIn(table) == {table[c].name : c \in DOMAIN table}
Bearing(table, name) == {c \in DOMAIN table : table[c].name = name}

\* C21: seeding is idempotent on collection names. A run of seed_collections
\* or of add_favorites_collection changes and removes no Collection; the ones
\* it creates bear names of the script that no Collection bore, one each, and
\* are created_by the superuser the run has found; a run on a table that holds
\* all the names of the script creates nothing, and so does a run with no
\* superuser present; a run that ends well with a superuser leaves every name
\* of the script present. In every state there is at most one Collection per
\* seeded name, created_by a superuser.
C21_SeedingIdempotent ==
  /\ \A name \in SeededNames :
       /\ Cardinality(Bearing(collections, name)) <= 1
       /\ \A c \in Bearing(collections, name) : collections[c].created_by \in superusers
  /\ last.op \in SeedOps =>
       /\ \A c \in DOMAIN before.collections :
            c \in DOMAIN collections /\ collections[c] = before.collections[c]
       /\ \A c \in DOMAIN collections \ DOMAIN before.collections :
            /\ collections[c].name \in ScriptNames(last.op) \ NamesIn(before.collections)
            /\ Bearing(collections, collections[c].name) = {c}
            /\ collections[c].created_by = req.admin_user
            /\ req.admin_user \in superusers
       /\ ScriptNames(last.op) \subseteq NamesIn(before.collections) =>
            collections = before.collections
       /\ superusers = {} => collections = before.collections
       /\ last.status = 0 /\ superusers # {} =>
            ScriptNames(last.op) \subseteq NamesIn(collections)

\* a second run of seed_collections, on a table that holds all its names
C21_Witness ==
  /\ last.op = "seed_collections"
  /\ last.status = 0
  /\ superusers # {}
  /\ ScriptNames(last.op) \subseteq NamesIn(before.collections)
  /\ collections = before.collections
  /\ \E c \in DOMAIN collections : collections[c].name = Favorites.name

\* the rows a request found and left in place
KeptItems == DOMAIN before.items \cap DOMAIN items
KeptCollections == DOMAIN before.collections \cap DOMAIN collections

\* C22: ownership is immutable. Whatever the request and whoever sends it, an
\* Item that exists before and after it has the owner_id and the upload_date it
\* had, and a Collection that exists before and after it has the created_by it
\* had; an Item that a request creates has the sender of that request as its
\* owner_id
C22_OwnershipImmutable ==
  last.op # "idle" =>
    /\ \A i \in KeptItems :
         /\ items[i].owner_id = before.items[i].owner_id
         /\ items[i].upload_date = before.items[i].upload_date
    /\ \A c \in KeptCollections :
         collections[c].created_by = before.collections[c].created_by
    /\ \A i \in DOMAIN items \ DOMAIN before.items :
         last.op = "upload_image" /\ items[i].owner_id = last.user

\* the superuser's update_item_metadata of another user's item succeeds with a
\* body that names owner_id and upload_date, and sets the title only
C22_Witness ==
  /\ last.op = "update_item_metadata"
  /\ last.status = 200
  /\ {"title", "owner_id", "upload_date"} \subseteq DOMAIN req.json
  /\ is_superuser(last.user)
  /\ before.items[req.id].owner_id \notin {last.user, req.json.owner_id}
  /\ items[req.id].title = req.json.title
  /\ items[req.id].title # before.items[req.id].title
  /\ items[req.id].owner_id = before.items[req.id].owner_id

-----------------------------------------------------------------------------

Next ==
  \/ upload_image
  \/ update_item
  \/ update_item_metadata
  \/ delete_item
  \/ read_item
  \/ get_image_file
  \/ read_items
  \/ read_collections
  \/ read_collection
  \/ create_collection
  \/ update_collection
  \/ delete_collection
  \/ ReturnResponse

Spec == Init /\ [][Next]_vars

-----------------------------------------------------------------------------
(* Listings over a database that holds several items *)

\* the most items the database holds at the start of a listing run
MaxListed == 3

\* the row upload_image stores for upload number i by user u to collection c
ListedItem(i, u, c) ==
  LET unique_filename == <<i, file_extension(BaseFile.filename)>>
      file_path == <<collection_dir(InitCollections[c].name), i, unique_filename[2]>>
  IN upload_item_data(u, c, Some(<<"image", "png">>), BaseForm, BaseFile, file_path,
                      unique_filename) @@ [upload_date |-> 2 + i]

\* who uploaded to which collection: upload_image lets a user upload to a
\* collection the user can use
Uploads ==
  {up \in Users \X DOMAIN InitCollections : can_use_collection(up[1], InitCollections[up[2]])}

\* the database after the uploads of a sequence ups, one a tick
ListingInit ==
  /\ superusers = {1}
  /\ \E n \in 0 .. MaxListed : \E ups \in [1 .. n -> Uploads] :
      /\ collections = InitCollections
      /\ items = [i \in 1 .. n |-> ListedItem(i, ups[i][1], ups[i][2])]
      /\ files = {ListedItem(i, ups[i][1], ups[i][2]).file_path : i \in 1 .. n}
      /\ dirs = {collection_dir(InitCollections[ups[i][2]].name) : i \in 1 .. n}
      /\ next_collection_id = 3
      /\ next_item_id = n + 1
      /\ now = 3 + n
      /\ writes = 0
      /\ last = Idle

ListingNext ==
  \/ read_items
  \/ read_collections
  \/ create_collection
  \/ ReturnResponse

ListingSpec == ListingInit /\ [][ListingNext]_vars

-----------------------------------------------------------------------------
(* The seeding scripts and the collection routes over a new database *)

\* the rows of table user with is_superuser at the start: none, one or two
SeedSuperusers == SUBSET {1, 2}

SeedInit ==
  /\ superusers \in SeedSuperusers
  /\ collections = <<>>
  /\ items = <<>>
  /\ files = {}
  /\ dirs = {}
  /\ next_collection_id = 1
  /\ next_item_id = 1
  /\ now = 1
  /\ writes = 0
  /\ last = Idle

SeedNext ==
  \/ seed_collections
  \/ add_favorites_collection
  \/ create_collection
  \/ update_collection
  \/ delete_collection
  \/ read_collections
  \/ ReturnResponse

SeedSpec == SeedInit /\ [][SeedNext]_vars

====
